---- MODULE Spec2Model ----
(***************************************************************************)
(* Model of the VirtSynth real-time engine (src/src/synthesizer.rs,        *)
(* envelope.rs, oscilator.rs, atomicf.rs, waveform.rs, keyboard.rs).       *)
(*                                                                         *)
(* f32 values are modelled as binary floating point numbers <<m, e>> of    *)
(* value m * 2^e with a Prec-bit significand, round-to-nearest-even after  *)
(* every arithmetic operation (as IEEE-754 does for f32 with 24 bits).     *)
(* Signed zero, infinities and NaN are not modelled: the exponent is       *)
(* unbounded and dividing by zero yields the marker FInf.                   *)
(***************************************************************************)
EXTENDS Integers, Sequences, FiniteSets, TLC

\* ------------------------------------------------------------------------
\* Bounds of the model
\* ------------------------------------------------------------------------
Prec == 4           \* significand bits of the modelled float (f32: 24)
MaxStores == 1      \* ADSR / gain / oscillator cell stores by the UI thread
MaxKeyChanges == 3  \* changes of the note set by the UI thread
MaxFrames == 2      \* frames of every buffer handed to on_buffer
MaxSpareCalls == 2  \* calls of next beyond the twelve that can return a key
MaskBits == 13      \* width of the masks a KeyBitflags iterator is made over

\* ------------------------------------------------------------------------
\* Floating point layer
\* ------------------------------------------------------------------------
Abs(n) == IF n < 0 THEN -n ELSE n
Sgn(n) == IF n < 0 THEN -1 ELSE IF n > 0 THEN 1 ELSE 0
Min(a, b) == IF a < b THEN a ELSE b

RECURSIVE BitLenHi(_)
BitLenHi(n) == IF n = 0 THEN 0 ELSE 1 + BitLenHi(n \div 2)

\* number of bits of a natural number
BitLen(n) ==
    IF n < 256
    THEN IF n < 16
         THEN IF n < 4 THEN (IF n < 2 THEN n ELSE 2)
                       ELSE (IF n < 8 THEN 3 ELSE 4)
         ELSE IF n < 64 THEN (IF n < 32 THEN 5 ELSE 6)
                        ELSE (IF n < 128 THEN 7 ELSE 8)
    ELSE 8 + BitLenHi(n \div 256)

\* n / 2^k rounded to the nearest integer, ties to even (n >= 0, k >= 1)
RoundShift(n, k) ==
    LET q == n \div 2^k
        r == n % 2^k
        half == 2^(k-1)
    IN  IF r > half \/ (r = half /\ q % 2 = 1) THEN q + 1 ELSE q

FZero == <<0, 0>>
FInf == <<0, 1>>

\* the float nearest to n * 2^e
Norm(n, e) ==
    IF n = 0 THEN FZero
    ELSE LET a == Abs(n)
             s == Sgn(n)
             b == BitLen(a)
         IN  IF b > Prec
             THEN LET k == b - Prec
                      q == RoundShift(a, k)
                  IN  IF q = 2^Prec THEN <<s * 2^(Prec-1), e + k + 1>>
                                    ELSE <<s * q, e + k>>
             ELSE <<s * a * 2^(Prec - b), e - (Prec - b)>>

FInt(n) == Norm(n, 0)
\* n / 2^k as a float
FBin(n, k) == Norm(n, -k)
FOne == FInt(1)
FTwo == FInt(2)

FNeg(x) == <<-x[1], x[2]>>

FAdd(x, y) ==
    IF x[1] = 0 THEN y
    ELSE IF y[1] = 0 THEN x
    ELSE IF x[2] - y[2] > Prec + 2 THEN x
    ELSE IF y[2] - x[2] > Prec + 2 THEN y
    ELSE LET e == Min(x[2], y[2])
         IN  Norm(x[1] * 2^(x[2] - e) + y[1] * 2^(y[2] - e), e)

FSub(x, y) == FAdd(x, FNeg(y))

FMul(x, y) == Norm(x[1] * y[1], x[2] + y[2])

FDiv(x, y) ==
    IF y[1] = 0 THEN FInf
    ELSE IF x[1] = 0 THEN FZero
    ELSE LET n == Abs(x[1]) * 2^(Prec + 2)
             d == Abs(y[1])
             q == n \div d
             st == IF n % d = 0 THEN 0 ELSE 1
         IN  Norm(Sgn(x[1]) * Sgn(y[1]) * (2 * q + st), x[2] - y[2] - (Prec + 3))

FLt(x, y) == FSub(x, y)[1] < 0
FLe(x, y) == FSub(x, y)[1] <= 0
FGt(x, y) == FLt(y, x)
FGe(x, y) == FLe(y, x)
FMax(x, y) == IF FLt(x, y) THEN y ELSE x
FAbs(x) == <<Abs(x[1]), x[2]>>

\* smallest integer >= x, for x >= 0
FCeil(x) ==
    IF x[2] >= 0 THEN x[1] * 2^(x[2])
    ELSE IF -x[2] > 29 THEN (IF x[1] > 0 THEN 1 ELSE 0)
    ELSE (x[1] + 2^(-x[2]) - 1) \div 2^(-x[2])

\* the float nearest to num / den (num >= 0, den > 0), a single rounding
FRat(num, den) ==
    IF num = 0 THEN FZero
    ELSE LET s == IF Prec + 2 + BitLen(den) > BitLen(num)
                  THEN Prec + 2 + BitLen(den) - BitLen(num) ELSE 0
             n == num * 2^s
             q == n \div den
             st == IF n % den = 0 THEN 0 ELSE 1
         IN  Norm(2 * q + st, -(s + 1))

\* ------------------------------------------------------------------------
\* keyboard.rs: Key
\* ------------------------------------------------------------------------
NumKeys == 12
KeyIndex == 0..(NumKeys - 1)

C4 == 40
A4 == 49
B4 == 51
Key == C4..B4

\* Key::from_zero_index; an index outside 0..11 reaches unreachable!()
from_zero_index(index) == IF index \in 0..11 THEN C4 + index ELSE "panic"

\* Key::from_bitflag; any other value reaches unreachable!()
from_bitflag(flag) ==
    CASE flag = 1 -> C4          [] flag = 2 -> C4 + 1
      [] flag = 4 -> C4 + 2      [] flag = 8 -> C4 + 3
      [] flag = 16 -> C4 + 4     [] flag = 32 -> C4 + 5
      [] flag = 64 -> C4 + 6     [] flag = 128 -> C4 + 7
      [] flag = 256 -> C4 + 8    [] flag = 512 -> A4
      [] flag = 1024 -> A4 + 1   [] flag = 2048 -> B4
      [] OTHER -> "panic"

\* Key::bitflag
bitflag(key) == 2^(key - C4)

\* a & b of two usize values
RECURSIVE BitAnd(_, _)
BitAnd(a, b) ==
    IF a = 0 \/ b = 0 THEN 0
    ELSE (a % 2) * (b % 2) + 2 * BitAnd(a \div 2, b \div 2)

\* Option<Key>: None and Some(key)
None == <<>>
Some(key) == <<key>>

\* KeyBitflags::all
KeyBitflags_all ==
    <<bitflag(C4) + bitflag(C4 + 1) + bitflag(C4 + 2) + bitflag(C4 + 3)
        + bitflag(C4 + 4) + bitflag(C4 + 5) + bitflag(C4 + 6)
        + bitflag(C4 + 7) + bitflag(C4 + 8) + bitflag(A4)
        + bitflag(A4 + 1) + bitflag(B4), 1>>

\* a `while` loop of next that leaves the cursor on the key it returns
RECURSIVE scan_stuck(_)
scan_stuck(it) ==
    IF it[2] <= bitflag(B4)
    THEN IF BitAnd(it[1], it[2]) > 0
         THEN [item |-> Some(from_bitflag(it[2])), iter |-> it]
         ELSE scan_stuck(<<it[1], it[2] * 2>>)
    ELSE [item |-> None, iter |-> it]

\* the `while self.1 <= Key::B4.bitflag()` loop of next: the value returned
\* and the iterator left behind
RECURSIVE scan(_)
scan(it) ==
    IF it[2] <= bitflag(B4)
    THEN IF BitAnd(it[1], it[2]) > 0
         THEN [item |-> Some(from_bitflag(it[2])),
               iter |-> <<it[1], it[2] * 2>>]
         ELSE scan(<<it[1], it[2] * 2>>)
    ELSE [item |-> None, iter |-> it]

\* <KeyBitflags as Iterator>::next
KeyBitflags_next(it) ==
    IF it[2] > bitflag(B4) THEN [item |-> None, iter |-> it]
    ELSE scan(it)

\* 2^(n/12) * 10000 for the semitone offsets of C4..B4 (f32::powf)
Pow12 == [n \in -9..2 |->
            CASE n = -9 -> 5946 [] n = -8 -> 6300 [] n = -7 -> 6674
              [] n = -6 -> 7071 [] n = -5 -> 7492 [] n = -4 -> 7937
              [] n = -3 -> 8409 [] n = -2 -> 8909 [] n = -1 -> 9439
              [] n = 0 -> 10000 [] n = 1 -> 10595 [] n = 2 -> 11225]

\* 2^((key - 49) / 12) * 440 for every key
KeyFreq == [key \in Key |-> FMul(FRat(Pow12[key - A4], 10000), FInt(440))]

\* the frequency with the sign of the semitone offset flipped (49 - key)
freq_inverted(key) == FDiv(FInt(440), FRat(Pow12[key - A4], 10000))

\* Key::freq
freq(key) == KeyFreq[key]

\* a phase store laid out from B4 down to C4
get_phase_index_reversed(key) == B4 - key

\* PhaseStore::get_phase_index
get_phase_index(key) == key - C4

\* ------------------------------------------------------------------------
\* waveform.rs / oscilator.rs
\* ------------------------------------------------------------------------
Sin == 1
Square == 2
Saw == 3
Triangle == 4
Waveform == {Sin, Square, Saw, Triangle}

\* impl From<i32> for Waveform
waveform_from(value) == IF value \in Waveform THEN value ELSE "panic"

\* (phase * TAU).sin() for a phase in [0, 1]: libm's sinf is replaced by
\* Bhaskara's rational approximation 16x(1-x) / (5 - 4x(1-x)) of sin(pi x),
\* evaluated exactly and rounded once.
SinTau(phase) ==
    IF phase[1] <= 0 \/ FGt(phase, FOne) THEN FZero
    ELSE LET k0 == -phase[2]
             k == IF k0 > 12 THEN 12 ELSE k0
             m == IF k0 > 12 THEN phase[1] \div 2^(k0 - 12) ELSE phase[1]
             D == 2^(k - 1)
             upper == m > D
             X == IF upper THEN m - D ELSE m
             num == 16 * X * (D - X)
             den == 5 * D * D - 4 * X * (D - X)
             sh == IF BitLen(den) > 14 THEN BitLen(den) - 14 ELSE 0
             r == FRat(num \div 2^sh, den \div 2^sh)
         IN  IF upper THEN FNeg(r) ELSE r

\* the match on self.waveform of Oscilator::tick
waveform_value(w, phase) ==
    CASE w = Sin -> SinTau(phase)
      [] w = Square -> IF FGt(phase, FBin(1, 1)) THEN FNeg(FOne) ELSE FOne
      [] w = Saw -> FSub(FMul(FTwo, phase), FOne)
      [] w = Triangle ->
           FSub(FMul(FTwo, FAbs(FSub(FMul(FTwo, phase), FOne))), FOne)

\* Oscilator::tick
osc_tick(o, phase) == FMul(waveform_value(o.waveform, phase), o.gain)

\* ------------------------------------------------------------------------
\* synthesizer.rs: TrackElement
\* ------------------------------------------------------------------------
Pressed == "Pressed"
Decay == "Decay"
Sustain == "Sustain"
Released == "Released"
KeyState == {Pressed, Decay, Sustain, Released}

\* impl Default for TrackElement
TrackElementDefault ==
    [state |-> Released, amplitude |-> FZero, position |-> FZero,
     t_amplitude |-> FZero]

\* press that restarts the attack from amplitude 0
press_from_zero(el) ==
    IF el.state = Released
    THEN [el EXCEPT !.state = Pressed, !.position = FZero,
                    !.amplitude = FZero, !.t_amplitude = FZero]
    ELSE el

\* press that restarts the attack whatever the state of the slot
press_always(el) ==
    [el EXCEPT !.state = Pressed, !.position = FZero,
               !.t_amplitude = el.amplitude]

\* TrackElement::press
press(el) ==
    IF el.state = Released
    THEN [el EXCEPT !.state = Pressed, !.position = FZero,
                    !.t_amplitude = el.amplitude]
    ELSE el

\* a release that keeps the t_amplitude of the last trigger
release_stale(el) ==
    IF el.state # Released
    THEN [el EXCEPT !.state = Released, !.position = FZero]
    ELSE el

\* TrackElement::release
release(el) ==
    IF el.state # Released
    THEN [el EXCEPT !.state = Released, !.position = FZero,
                    !.t_amplitude = el.amplitude]
    ELSE el

\* every stage made to last two samples at least
stage_len_min(el, sample_rate, a) ==
    CASE el.state = Pressed -> FMax(FMul(sample_rate, a.attack), FTwo)
      [] el.state = Decay -> FMax(FMul(sample_rate, a.decay), FTwo)
      [] el.state = Released -> FMax(FMul(sample_rate, a.release), FTwo)
      [] el.state = Sustain -> FZero

\* the product sample_rate * duration that TrackElement::tick compares the
\* position with in the state of el (none in Sustain)
stage_len(el, sample_rate, a) ==
    CASE el.state = Pressed -> FMul(sample_rate, a.attack)
      [] el.state = Decay -> FMul(sample_rate, a.decay)
      [] el.state = Released -> FMul(sample_rate, a.release)
      [] el.state = Sustain -> FZero

\* the comparison made inclusive and before the increment of the position
ramping_inclusive(el, sample_rate, a) ==
    /\ el.state # Sustain
    /\ FLe(el.position, stage_len(el, sample_rate, a))

\* the conditions `self.position < sample_rate * adsr.<duration>` of
\* TrackElement::tick, evaluated after `self.position += 1.0`
ramping(el, sample_rate, a) ==
    /\ el.state # Sustain
    /\ FLt(FAdd(el.position, FOne), stage_len(el, sample_rate, a))

\* TrackElement::tick
tick(el, sample_rate, a) ==
    LET pos == FAdd(el.position, FOne)
        len == stage_len(el, sample_rate, a)
    IN
    CASE el.state = Pressed ->
           IF ramping(el, sample_rate, a)
           THEN [el EXCEPT !.position = pos,
                    !.amplitude = FAdd(el.amplitude,
                                       FDiv(FSub(FOne, el.t_amplitude), len))]
           ELSE [el EXCEPT !.amplitude = FOne, !.position = FZero,
                           !.state = Decay]
      [] el.state = Decay ->
           IF ramping(el, sample_rate, a)
           THEN [el EXCEPT !.position = pos,
                    !.amplitude = FSub(el.amplitude,
                                       FDiv(FSub(FOne, a.sustain), len))]
           ELSE [el EXCEPT !.position = pos, !.amplitude = a.sustain,
                           !.state = Sustain]
      [] el.state = Sustain -> [el EXCEPT !.amplitude = a.sustain]
      [] el.state = Released ->
           IF ramping(el, sample_rate, a)
           THEN [el EXCEPT !.position = pos,
                    !.amplitude = FSub(el.amplitude,
                                       FDiv(el.t_amplitude, len))]
           ELSE [el EXCEPT !.position = pos, !.amplitude = FZero]

\* ------------------------------------------------------------------------
\* State
\* ------------------------------------------------------------------------
VARIABLES
    active_keys,    \* Keyboard.active_keys / Engine.active_keys (AtomicUsize)
    adsr_a,         \* the cells attack_a, decay_a, sustain_a, release_a
    gain_a,         \* Engine.gain_a / Keyboard.gain (AtomicF32)
    osc_a,          \* the cells (active, waveform, gain) of osc1..osc3
    adsr,           \* KeyAmplitudeTracker.adsr: attack, decay, sustain, release
    keys,           \* KeyAmplitudeTracker.keys: [TrackElement; 12]
    phases,         \* PhaseStore.phases: [f32; 12]
    osc,            \* Engine.osc1..osc3: waveform, active, gain
    fgain,          \* local fgain of on_buffer
    snapshot,       \* argument keys of KeyAmplitudeTracker::update
    pc,             \* audio thread: "idle" or inside the frame loop
    channels,       \* argument channels of the on_buffer call
    buffer,         \* argument buffer of the on_buffer call
    frame,          \* number of chunks of the buffer already written
    stores,         \* number of parameter cell stores made by the UI thread
    presses,        \* number of changes of the note set made by the UI thread
    requested,      \* argument of the latest Keyboard::set_active_keys call
    elapsed,        \* ticks each slot spent in Pressed and Decay since its
                    \* last trigger
    taps,           \* tapped: slots whose bit was set and cleared again by
                    \* set_active_keys calls since the latest load of the
                    \* note set, which found it clear; missed: the slots
                    \* that were tapped when that load was made (recorded
                    \* under SpecTap only)
    iter,           \* a KeyBitflags value: <<self.0, self.1>>
    yielded         \* the values returned by the calls of next on iter

vars == <<active_keys, adsr_a, gain_a, osc_a, adsr, keys, phases, osc, fgain,
          snapshot, pc, channels, buffer, frame, stores, presses,
          requested, elapsed, taps, iter, yielded>>

walk == <<iter, yielded>>

cells == <<active_keys, adsr_a, gain_a, osc_a>>
engine == <<adsr, keys, phases, osc, fgain, snapshot, pc, channels, buffer,
            frame, elapsed>>

\* Engine.sample_rate (supported_config.sample_rate().0 as f32)
sample_rate == FInt(1760)

\* Values the UI widgets store. The durations are scaled to the modelled
\* precision: sample_rate * duration is a few samples and stays below
\* 2^Prec, as it stays below 2^24 for f32.
DShort == FBin(1, 9)        \* a stage of 3.5 samples
DLong == FBin(13, 11)       \* a stage of about 11 samples
Half == FBin(1, 1)
Durations == {FZero, DShort, DLong}
Levels == {FZero, Half, FOne}
Masks == {0, bitflag(A4)}
Chords == {0, bitflag(A4), bitflag(B4), bitflag(A4) + bitflag(B4)}

\* config.channels of the output stream
NumChannels == 2

\* an element of the buffer that on_buffer has not written yet
Stale == <<>>

OscIds == 1..3

\* ------------------------------------------------------------------------
\* atomicf.rs: the cells hold bit patterns
\* ------------------------------------------------------------------------
ExpBias == 127

\* `val as u32` in place of val.to_bits(): the integer part of the value
to_bits_cast(x) ==
    IF x[1] <= 0 THEN 0
    ELSE IF x[2] >= 0 THEN x[1] * 2^x[2]
    ELSE IF x[2] < -Prec THEN 0 ELSE x[1] \div 2^(-x[2])

\* f32::to_bits: sign, biased exponent, fraction without the leading one
to_bits(x) ==
    IF x[1] = 0 THEN 0
    ELSE (IF x[1] < 0 THEN 2^(Prec + 7) ELSE 0)
         + (x[2] + Prec - 1 + ExpBias) * 2^(Prec - 1)
         + (Abs(x[1]) - 2^(Prec - 1))

\* f32::from_bits
from_bits(b) ==
    LET sign == b \div 2^(Prec + 7)
        mag == b % 2^(Prec + 7)
        ex == mag \div 2^(Prec - 1)
        frac == mag % 2^(Prec - 1)
    IN  IF mag = 0 THEN FZero
        ELSE <<(IF sign = 1 THEN -1 ELSE 1) * (2^(Prec - 1) + frac),
               ex - ExpBias - (Prec - 1)>>

\* AtomicF32::new / AtomicF32::store: the new content of the cell
AtomicF32_store(val) == to_bits(val)
\* AtomicF32::load
AtomicF32_load(inner) == from_bits(inner)
\* a zero-based code in place of the discriminant
AtomicWaveform_store_index(val) == val - 1
\* AtomicWaveform::new / AtomicWaveform::store (val as i32)
AtomicWaveform_store(val) == val
\* AtomicWaveform::load
AtomicWaveform_load(inner) == waveform_from(inner)

\* ------------------------------------------------------------------------
\* envelope.rs, oscilator.rs, synthesizer.rs: per-buffer and per-frame steps
\* ------------------------------------------------------------------------
\* ADSR::new
ADSR_new == [attack |-> FZero, decay |-> FZero, sustain |-> FOne,
             release |-> FZero]

\* an update that loads the sustain level from the release cell
ADSR_update_swapped(c) ==
    [attack |-> AtomicF32_load(c.attack), decay |-> AtomicF32_load(c.decay),
     sustain |-> AtomicF32_load(c.release),
     release |-> AtomicF32_load(c.release)]

\* ADSR::update
ADSR_update(c) ==
    [attack |-> AtomicF32_load(c.attack), decay |-> AtomicF32_load(c.decay),
     sustain |-> AtomicF32_load(c.sustain),
     release |-> AtomicF32_load(c.release)]

\* Oscilator::new
Oscilator_new == [waveform |-> Sin, active |-> FALSE, gain |-> FOne]

\* Oscilator::update
Oscilator_update(c) ==
    [waveform |-> AtomicWaveform_load(c.waveform), active |-> c.active,
     gain |-> AtomicF32_load(c.gain)]

\* the tick counts after a call of update that took the slots from `before`
\* to `after`: a slot that was triggered or released starts from 0
retimed(el, before, after) ==
    [i \in KeyIndex |-> IF after[i].state # before[i].state THEN 0
                                                             ELSE el[i]]

\* the tick counts after a tick of the slots ks
aged(el, ks) ==
    [i \in KeyIndex |-> IF ks[i].state \in {Pressed, Decay} THEN el[i] + 1
                                                              ELSE el[i]]

\* (keys & mask) > 0 with mask = 1 << i
bit_set(mask, i) == (mask \div 2^i) % 2 = 1

\* the record of taps after a set_active_keys call with the mask m, when the
\* call before it stored `latest` and the engine last loaded `before`: a slot
\* is tapped when its bit was set by a call since that load, is clear in m,
\* and was clear at that load
stored(t, m, latest, before) ==
    [t EXCEPT !.tapped = {i \in KeyIndex :
                            /\ ~bit_set(m, i)
                            /\ ~bit_set(before, i)
                            /\ (i \in t.tapped \/ bit_set(latest, i))}]

\* the record of taps after a load of the note set: the tapped slots have
\* been missed
observed(t) == [tapped |-> {}, missed |-> t.tapped]

\* the mask with exactly the bits of the set bits
RECURSIVE SetToMask(_)
SetToMask(bits) ==
    IF bits = {} THEN 0
    ELSE LET i == CHOOSE b \in bits : TRUE
         IN  2^i + SetToMask(bits \ {i})

\* a slot loop whose mask starts at 0b10: slot i follows bit i + 1
update_shifted(ks, mask) ==
    [i \in KeyIndex |-> IF bit_set(mask, i + 1) THEN press(ks[i])
                                                ELSE release(ks[i])]

\* the slot loop of KeyAmplitudeTracker::update
update(ks, mask) ==
    [i \in KeyIndex |-> IF bit_set(mask, i) THEN press(ks[i])
                                            ELSE release(ks[i])]

\* KeyAmplitudeTracker::tick
\* (tick is evaluated once for every distinct slot value)
tick_all(ks, a) ==
    LET ticked == {<<el, tick(el, sample_rate, a)>> :
                     el \in {ks[i] : i \in KeyIndex}}
    IN  [i \in KeyIndex |-> (CHOOSE p \in ticked : p[1] = ks[i])[2]]

\* a block that is executed whatever the active flag of the oscillator
osc_block_always(acc, o, amplitude, adam) ==
    [sum_amps |-> FAdd(acc.sum_amps, FMul(amplitude, o.gain)),
     sample_w |-> FAdd(acc.sample_w, FMul(amplitude, osc_tick(o, adam)))]

\* a block that adds the amplitude to sum_amps without the oscillator's gain
osc_block_unweighted(acc, o, amplitude, adam) ==
    IF o.active
    THEN [sum_amps |-> FAdd(acc.sum_amps, amplitude),
          sample_w |-> FAdd(acc.sample_w, FMul(amplitude, osc_tick(o, adam)))]
    ELSE acc

\* one `if self.oscN.active { ... }` block of Engine::on_buffer
osc_block(acc, o, amplitude, adam) ==
    IF o.active
    THEN [sum_amps |-> FAdd(acc.sum_amps, FMul(amplitude, o.gain)),
          sample_w |-> FAdd(acc.sample_w, FMul(amplitude, osc_tick(o, adam)))]
    ELSE acc

\* the phase advance and wrap of Engine::on_buffer
advance(phase, f) ==
    LET p == FAdd(phase, FDiv(f, sample_rate))
    IN  IF FGt(p, FOne) THEN FSub(p, FOne) ELSE p

\* the slots that pass `if amp.amplitude == 0.0 { continue; }`
sounding(amps) == {i \in KeyIndex : amps[i].amplitude # FZero}

\* the loop with the phase advance inside each `if self.oscN.active` block:
\* one increment for every active oscillator
RECURSIVE mix_per_block(_, _, _, _, _)
mix_per_block(todo, amps, os, ph, acc) ==
    IF todo = {} THEN [acc |-> acc, phases |-> ph]
    ELSE LET index == CHOOSE i \in todo : \A j \in todo : i <= j
             key == from_zero_index(index)
             f == freq(key)
             pi == get_phase_index(key)
             adam == ph[pi]
             a1 == osc_block(acc, os[1], amps[index].amplitude, adam)
             a2 == osc_block(a1, os[2], amps[index].amplitude, adam)
             a3 == osc_block(a2, os[3], amps[index].amplitude, adam)
             p1 == IF os[1].active THEN advance(adam, f) ELSE adam
             p2 == IF os[2].active THEN advance(p1, f) ELSE p1
             p3 == IF os[3].active THEN advance(p2, f) ELSE p2
         IN  mix_per_block(todo \ {index}, amps, os,
                           [ph EXCEPT ![pi] = p3], a3)

\* the loop over amps.iter().enumerate() of Engine::on_buffer: the slots of
\* todo that are not skipped, in increasing index order
RECURSIVE mix(_, _, _, _, _)
mix(todo, amps, os, ph, acc) ==
    IF todo = {} THEN [acc |-> acc, phases |-> ph]
    ELSE LET index == CHOOSE i \in todo : \A j \in todo : i <= j
             key == from_zero_index(index)
             f == freq(key)
             pi == get_phase_index(key)
             adam == ph[pi]
             a1 == osc_block(acc, os[1], amps[index].amplitude, adam)
             a2 == osc_block(a1, os[2], amps[index].amplitude, adam)
             a3 == osc_block(a2, os[3], amps[index].amplitude, adam)
         IN  mix(todo \ {index}, amps, os,
                 [ph EXCEPT ![pi] = advance(adam, f)], a3)

\* the sum of the gains damped by one more than itself
the_sample_damped(acc, g) ==
    LET sample_w == FMul(acc.sample_w,
                         FDiv(FOne, FAdd(FOne, acc.sum_amps)))
    IN  FMul(g, sample_w)

\* the value written to every channel of one frame, from the sums of mix
the_sample(acc, g) ==
    LET sample_w == FMul(acc.sample_w,
                         FDiv(FOne, FMax(FOne, acc.sum_amps)))
    IN  FMul(g, sample_w)

\* number of chunks of buffer.chunks_exact_mut(channels)
chunks_exact(len, ch) == len \div ch

\* number of chunks of buffer.chunks_mut(channels)
chunks(len, ch) == (len + ch - 1) \div ch

\* ------------------------------------------------------------------------
\* Initial states: Keyboard::new followed by Engine::new, with the cells
\* holding values the UI stores before the first buffer.
\* ------------------------------------------------------------------------
ADSRCells(at, de, su, re) ==
    [attack |-> AtomicF32_store(at), decay |-> AtomicF32_store(de),
     sustain |-> AtomicF32_store(su), release |-> AtomicF32_store(re)]

\* Osc::new
OscCells(active, waveform, gain) ==
    [active |-> active, waveform |-> AtomicWaveform_store(waveform),
     gain |-> AtomicF32_store(gain)]

\* Engine::new, KeyAmplitudeTracker::new, PhaseStore::new
EngineNew ==
    /\ active_keys = 0
    /\ adsr = ADSR_new
    /\ keys = [i \in KeyIndex |-> TrackElementDefault]
    /\ phases = [i \in KeyIndex |-> FZero]
    /\ osc = [j \in OscIds |-> Oscilator_new]
    /\ fgain = FZero
    /\ snapshot = 0
    /\ pc = "idle"
    /\ channels = NumChannels
    /\ buffer = <<>>
    /\ frame = 0
    /\ stores = 0
    /\ presses = 0
    /\ requested = 0
    /\ taps = [tapped |-> {}, missed |-> {}]
    /\ elapsed = [i \in KeyIndex |-> 0]

\* KeyBitflags(0, 1) of get_active_keys, which no code iterates
NoIteration ==
    /\ iter = <<0, 1>>
    /\ yielded = <<>>

\* the oscillator cells of Keyboard::new: osc1 active, all Sin at gain 1
OscDefault == [j \in OscIds |-> OscCells(j = 1, Sin, FOne)]

\* the proportions of Keyboard::new: attack and release of equal length, no
\* decay, full sustain, master gain 1/2
Init ==
    /\ EngineNew
    /\ NoIteration
    /\ adsr_a = ADSRCells(DShort, FZero, FOne, DShort)
    /\ gain_a = AtomicF32_store(Half)
    /\ osc_a = OscDefault

\* envelope settings that stay untouched for a whole run
HoldConfigs ==
    { ADSRCells(DShort, FZero, FOne, DShort),
      ADSRCells(FZero, FZero, FOne, DLong),
      ADSRCells(DLong, FZero, FOne, FZero),
      ADSRCells(DShort, DShort, Half, DShort),
      ADSRCells(DShort, DLong, FZero, DLong) }

InitHold ==
    /\ EngineNew
    /\ NoIteration
    /\ adsr_a \in HoldConfigs
    /\ gain_a = AtomicF32_store(Half)
    /\ osc_a = OscDefault

\* one oscillator active alone at gain 1
Solo(k, waveform) == [j \in OscIds |-> OscCells(j = k, waveform, FOne)]

\* oscillator settings that stay untouched for a whole run
MixConfigs ==
    { OscDefault,
      [j \in OscIds |-> OscCells(TRUE, Square, FOne)],
      [j \in OscIds |-> OscCells(j # 2, IF j = 1 THEN Triangle ELSE Sin,
                                 IF j = 1 THEN Half ELSE FOne)] }

ToneConfigs ==
    { OscDefault, Solo(2, Saw), Solo(3, Square), Solo(1, Triangle),
      [j \in OscIds |-> OscCells(j # 3, Saw, Half)] }

InitMix ==
    /\ EngineNew
    /\ NoIteration
    /\ adsr_a = ADSRCells(FZero, FZero, FOne, DShort)
    /\ gain_a = AtomicF32_store(Half)
    /\ osc_a \in MixConfigs

\* the envelope of ADSR::new: every stage instantaneous
InitTone ==
    /\ EngineNew
    /\ NoIteration
    /\ adsr_a = ADSRCells(FZero, FZero, FOne, FZero)
    /\ gain_a = AtomicF32_store(Half)
    /\ osc_a \in ToneConfigs

\* ------------------------------------------------------------------------
\* Audio thread: Engine::on_buffer
\* ------------------------------------------------------------------------
\* an on_buffer that blocks until the UI thread has sent a new note set
on_buffer_begin_recv(len, ch) ==
    /\ pc = "idle"
    /\ active_keys # snapshot
    /\ snapshot' = active_keys
    /\ adsr' = ADSR_update(adsr_a)
    /\ keys' = update(keys, active_keys)
    /\ elapsed' = retimed(elapsed, keys, keys')
    /\ fgain' = AtomicF32_load(gain_a)
    /\ osc' = [j \in OscIds |-> Oscilator_update(osc_a[j])]
    /\ channels' = ch
    /\ buffer' = [k \in 1..len |-> Stale]
    /\ frame' = 0
    /\ pc' = IF chunks(len, ch) = 0 THEN "idle" ELSE "frames"
    /\ taps' = observed(taps)
    /\ UNCHANGED <<cells, phases, stores, presses, requested, walk>>

\* a start of on_buffer that takes the note set out of the cell (swap(0))
on_buffer_begin_swap(len, ch) ==
    /\ pc = "idle"
    /\ snapshot' = active_keys
    /\ active_keys' = 0
    /\ adsr' = ADSR_update(adsr_a)
    /\ keys' = update(keys, active_keys)
    /\ elapsed' = retimed(elapsed, keys, keys')
    /\ fgain' = AtomicF32_load(gain_a)
    /\ osc' = [j \in OscIds |-> Oscilator_update(osc_a[j])]
    /\ channels' = ch
    /\ buffer' = [k \in 1..len |-> Stale]
    /\ frame' = 0
    /\ pc' = IF chunks(len, ch) = 0 THEN "idle" ELSE "frames"
    /\ taps' = observed(taps)
    /\ UNCHANGED <<adsr_a, gain_a, osc_a, phases, stores, presses, requested,
                   walk>>

\* the statements of on_buffer before the frame loop
on_buffer_begin(len, ch) ==
    /\ pc = "idle"
    /\ snapshot' = active_keys
    /\ adsr' = ADSR_update(adsr_a)
    /\ keys' = update(keys, active_keys)
    /\ elapsed' = retimed(elapsed, keys, keys')
    /\ fgain' = AtomicF32_load(gain_a)
    /\ osc' = [j \in OscIds |-> Oscilator_update(osc_a[j])]
    /\ channels' = ch
    /\ buffer' = [k \in 1..len |-> Stale]
    /\ frame' = 0
    /\ pc' = IF chunks(len, ch) = 0 THEN "idle" ELSE "frames"
    /\ taps' = observed(taps)
    /\ UNCHANGED <<cells, phases, stores, presses, requested, walk>>

\* a frame of on_buffer computed from the slots ks and the settings a, os, g,
\* written to the first `width` elements of its chunk
frame_variant(ks, a, os, g, width) ==
    LET amps == tick_all(ks, a)
        r == mix(sounding(amps), amps, os, phases,
                 [sum_amps |-> FZero, sample_w |-> FZero])
        s == the_sample(r.acc, g)
        lo == frame * channels + 1
        hi == Min(frame * channels + width, Len(buffer))
    IN  /\ keys' = amps
        /\ elapsed' = aged(elapsed, ks)
        /\ phases' = r.phases
        /\ buffer' = [k \in 1..Len(buffer) |->
                        IF k >= lo /\ k <= hi THEN s ELSE buffer[k]]
        /\ frame' = frame + 1
        /\ pc' = IF frame + 1 = chunks(Len(buffer), channels)
                 THEN "idle" ELSE "frames"

\* a frame loop that loads the note set and triggers the slots in every frame
on_buffer_frame_retrigger ==
    /\ pc = "frames"
    /\ snapshot' = active_keys
    /\ frame_variant(update(keys, active_keys), adsr, osc, fgain, channels)
    /\ UNCHANGED <<cells, adsr, osc, fgain, channels, stores, presses,
                   requested, taps, walk>>

\* a frame loop that loads the parameter cells in every frame
on_buffer_frame_reload ==
    /\ pc = "frames"
    /\ adsr' = ADSR_update(adsr_a)
    /\ fgain' = AtomicF32_load(gain_a)
    /\ osc' = [j \in OscIds |-> Oscilator_update(osc_a[j])]
    /\ frame_variant(keys, adsr', osc', fgain', channels)
    /\ UNCHANGED <<cells, snapshot, channels, stores, presses, requested, taps,
                   walk>>

\* a frame loop that writes the sample to the first channel only
on_buffer_frame_first ==
    /\ pc = "frames"
    /\ frame_variant(keys, adsr, osc, fgain, 1)
    /\ UNCHANGED <<cells, adsr, osc, fgain, snapshot, channels, stores,
                   presses, requested, taps, walk>>

\* one iteration of `for sample_frame in buffer.chunks_mut(channels)`
on_buffer_frame ==
    /\ pc = "frames"
    /\ LET amps == tick_all(keys, adsr)
           r == mix(sounding(amps), amps, osc, phases,
                    [sum_amps |-> FZero, sample_w |-> FZero])
           s == the_sample(r.acc, fgain)
           lo == frame * channels + 1
           hi == Min((frame + 1) * channels, Len(buffer))
       IN  /\ keys' = amps
           /\ elapsed' = aged(elapsed, keys)
           /\ phases' = r.phases
           /\ buffer' = [k \in 1..Len(buffer) |->
                           IF k >= lo /\ k <= hi THEN s ELSE buffer[k]]
           /\ frame' = frame + 1
           /\ pc' = IF frame + 1 = chunks(Len(buffer), channels)
                    THEN "idle" ELSE "frames"
    /\ UNCHANGED <<cells, adsr, osc, fgain, snapshot, channels, stores,
                   presses, requested, taps, walk>>

\* ------------------------------------------------------------------------
\* UI thread: gui/mod.rs, VirtSynth::update and osc_ui
\* ------------------------------------------------------------------------
\* a store that adds the new mask to the one already in the cell (fetch_or)
set_active_keys_or(m) ==
    /\ presses < MaxKeyChanges
    /\ m # active_keys
    /\ active_keys' = SetToMask({i \in 0..NumKeys : bit_set(active_keys, i)
                                                   \/ bit_set(m, i)})
    /\ presses' = presses + 1
    /\ requested' = m
    /\ UNCHANGED <<adsr_a, gain_a, osc_a, engine, stores, taps, walk>>

\* Keyboard::set_active_keys
set_active_keys(m) ==
    /\ presses < MaxKeyChanges
    /\ m # active_keys
    /\ active_keys' = m
    /\ presses' = presses + 1
    /\ requested' = m
    /\ UNCHANGED <<adsr_a, gain_a, osc_a, engine, stores, taps, walk>>

\* a store that adds the new mask to the one already in the cell, with the
\* taps recorded
set_active_keys_or_noted(m) ==
    /\ presses < MaxKeyChanges
    /\ m # active_keys
    /\ active_keys' = SetToMask({i \in 0..NumKeys : bit_set(active_keys, i)
                                                   \/ bit_set(m, i)})
    /\ presses' = presses + 1
    /\ requested' = m
    /\ taps' = stored(taps, m, requested, snapshot)
    /\ UNCHANGED <<adsr_a, gain_a, osc_a, engine, stores, walk>>

\* Keyboard::set_active_keys, with the taps it makes recorded
set_active_keys_noted(m) ==
    /\ presses < MaxKeyChanges
    /\ m # active_keys
    /\ active_keys' = m
    /\ presses' = presses + 1
    /\ requested' = m
    /\ taps' = stored(taps, m, requested, snapshot)
    /\ UNCHANGED <<adsr_a, gain_a, osc_a, engine, stores, walk>>

\* self.keyboard.attack.store(attack, Ordering::Release) and its siblings
store_adsr(field, val) ==
    /\ stores < MaxStores
    /\ adsr_a[field] # AtomicF32_store(val)
    /\ adsr_a' = [adsr_a EXCEPT ![field] = AtomicF32_store(val)]
    /\ stores' = stores + 1
    /\ UNCHANGED <<active_keys, gain_a, osc_a, engine, presses,
                   requested, taps, walk>>

\* self.keyboard.gain.store(gain, Ordering::Release)
store_gain(val) ==
    /\ stores < MaxStores
    /\ gain_a # AtomicF32_store(val)
    /\ gain_a' = AtomicF32_store(val)
    /\ stores' = stores + 1
    /\ UNCHANGED <<active_keys, adsr_a, osc_a, engine, presses,
                   requested, taps, walk>>

\* osc.active.store(active, Ordering::Release)
store_osc_active(j, b) ==
    /\ stores < MaxStores
    /\ osc_a[j].active # b
    /\ osc_a' = [osc_a EXCEPT ![j].active = b]
    /\ stores' = stores + 1
    /\ UNCHANGED <<active_keys, adsr_a, gain_a, engine, presses,
                   requested, taps, walk>>

\* osc.gain.store(gain, Ordering::Release)
store_osc_gain(j, val) ==
    /\ stores < MaxStores
    /\ osc_a[j].gain # AtomicF32_store(val)
    /\ osc_a' = [osc_a EXCEPT ![j].gain = AtomicF32_store(val)]
    /\ stores' = stores + 1
    /\ UNCHANGED <<active_keys, adsr_a, gain_a, engine, presses,
                   requested, taps, walk>>

\* osc.waveform.store(osc_wave, Ordering::Release)
store_osc_waveform(j, w) ==
    /\ stores < MaxStores
    /\ osc_a[j].waveform # AtomicWaveform_store(w)
    /\ osc_a' = [osc_a EXCEPT ![j].waveform = AtomicWaveform_store(w)]
    /\ stores' = stores + 1
    /\ UNCHANGED <<active_keys, adsr_a, gain_a, engine, presses,
                   requested, taps, walk>>

\* the audio thread
Audio ==
    \/ on_buffer_begin(MaxFrames * NumChannels, NumChannels)
    \/ on_buffer_frame

\* the UI thread pressing and releasing keys
UIKeys == \E m \in Masks : set_active_keys(m)

\* the UI thread turning the envelope knobs
UIEnvelope ==
    \/ \E d \in Durations : store_adsr("attack", d)
    \/ \E d \in Durations : store_adsr("decay", d)
    \/ \E l \in Levels : store_adsr("sustain", l)
    \/ \E d \in Durations : store_adsr("release", d)

\* the UI thread changing the master gain and the oscillators
UIOscillators ==
    \/ \E l \in Levels : store_gain(l)
    \/ \E j \in OscIds : \E b \in BOOLEAN : store_osc_active(j, b)
    \/ \E j \in OscIds : \E l \in Levels : store_osc_gain(j, l)
    \/ \E j \in OscIds : \E w \in Waveform : store_osc_waveform(j, w)

Next == Audio \/ UIKeys \/ UIEnvelope \/ UIOscillators

Spec == Init /\ [][Next]_vars

NextEnvelope == Audio \/ UIKeys \/ UIEnvelope

\* the engine with the UI thread limited to keys and envelope knobs
SpecEnvelope == Init /\ [][NextEnvelope]_vars

NextHold == Audio \/ UIKeys

\* the engine with envelope settings that are never changed
SpecHold == InitHold /\ [][NextHold]_vars

\* the UI thread pressing and releasing two keys
UIChord == \E m \in Chords : set_active_keys(m)

\* the UI thread turning the release knob
UIRelease == \E d \in Durations : store_adsr("release", d)

NextMix == Audio \/ UIKeys \/ UIRelease

\* the engine with oscillator settings that are never changed
SpecMix == InitMix /\ [][NextMix]_vars

NextTone == Audio \/ UIChord

\* the engine playing two keys with an instantaneous envelope
SpecTone == InitTone /\ [][NextTone]_vars

\* WF_vars(on_buffer_frame) with ENABLED <<on_buffer_frame>>_vars written
\* out: the only condition of on_buffer_frame is pc = "frames", the rest
\* assigns values of total operators
FairFrames == []<>(pc # "frames") \/ []<><<on_buffer_frame>>_vars

\* every stage of the envelope instantaneous, sustain and master gain 1/2,
\* the oscillators of Keyboard::new
InitKnobs ==
    /\ EngineNew
    /\ NoIteration
    /\ adsr_a = ADSRCells(FZero, FZero, Half, FZero)
    /\ gain_a = AtomicF32_store(Half)
    /\ osc_a = OscDefault

\* the UI thread turning one knob of each kind
UITurn ==
    \/ store_adsr("sustain", FOne)
    \/ store_gain(FOne)
    \/ store_osc_active(2, TRUE)
    \/ store_osc_gain(1, Half)
    \/ store_osc_waveform(1, Triangle)

NextKnobs == Audio \/ UIKeys \/ UITurn

\* the engine with one store of each kind of parameter cell
SpecKnobs == InitKnobs /\ [][NextKnobs]_vars

\* the UI thread turning the sustain and the master volume knob
UIVolume == store_adsr("sustain", FOne) \/ store_gain(FOne)

NextLive == Audio \/ UIKeys \/ UIVolume

\* the audio callback keeps running once a buffer is started; nothing is
\* assumed about the UI thread, which may stop at any point
SpecLive == InitKnobs /\ [][NextLive]_vars /\ FairFrames

\* buffer lengths and channel counts of on_buffer calls: an empty buffer, one
\* that ends with a partial frame, a whole number of frames; mono and the
\* stream's channel count
BufLens == {0, MaxFrames * NumChannels - 1, MaxFrames * NumChannels}
ChannelCounts == {1, NumChannels}

\* any usize may be stored into the note set: masks with a bit above B4
WideMasks == {0, 2^NumKeys, 2^NumKeys + bitflag(A4)}

\* on_buffer called with buffers of several shapes
AudioShapes ==
    \/ \E len \in BufLens : \E ch \in ChannelCounts : on_buffer_begin(len, ch)
    \/ on_buffer_frame

UIWideKeys == \E m \in WideMasks : set_active_keys(m)

NextBuffer == AudioShapes \/ UIWideKeys

\* the envelope of ADSR::new in the cells, the oscillators of Keyboard::new
InitBuffer ==
    /\ EngineNew
    /\ NoIteration
    /\ adsr_a = ADSRCells(FZero, FZero, FOne, FZero)
    /\ gain_a = AtomicF32_store(Half)
    /\ osc_a = OscDefault

\* the engine filling buffers of several shapes
SpecBuffer == InitBuffer /\ [][NextBuffer]_vars

\* the note sets of single keys, each with a bit above B4 next to it, and a
\* note set of such bits alone
KeyMasks ==
    {0, 2^NumKeys + 2^(NumKeys + 1)}
        \cup {bitflag(key) + 2^NumKeys : key \in Key}

\* the UI thread pressing the first key of a run, any of the twelve
UIAnyKey == presses = 0 /\ \E m \in KeyMasks : set_active_keys(m)

\* the UI thread lifting that key, with or without bits above B4 left set
UILift ==
    /\ presses > 0
    /\ \E m \in {0, 2^NumKeys + 2^(NumKeys + 1)} : set_active_keys(m)

NextKeys == Audio \/ UIAnyKey \/ UILift

\* the engine playing any one of the twelve keys
SpecKeys == InitBuffer /\ [][NextKeys]_vars

\* one call of next on the iterator
next_call ==
    /\ Len(yielded) < NumKeys + MaxSpareCalls
    /\ LET r == KeyBitflags_next(iter)
       IN  /\ iter' = r.iter
           /\ yielded' = Append(yielded, r.item)
    /\ UNCHANGED <<cells, engine, stores, presses, requested, taps>>

\* the masks of fresh iterators: every combination of the bits of the twelve
\* keys and of the bits above B4 up to bit MaskBits - 1
IterMasks == 0..(2^MaskBits - 1)

\* KeyBitflags(mask, 1) for any mask, and KeyBitflags::all()
InitIter ==
    /\ EngineNew
    /\ adsr_a = ADSRCells(DShort, FZero, FOne, DShort)
    /\ gain_a = AtomicF32_store(Half)
    /\ osc_a = OscDefault
    /\ iter \in {<<mask, 1>> : mask \in IterMasks} \cup {KeyBitflags_all}
    /\ yielded = <<>>

NextIter == next_call

\* an iterator over a note set called until it is exhausted, and beyond
SpecIter == InitIter /\ [][NextIter]_vars

\* the UI thread pressing and releasing A4, with its taps recorded
UITaps == \E m \in Masks : set_active_keys_noted(m)

NextTap == Audio \/ UITaps

\* the engine with envelope settings that are never changed and a record of
\* the presses that no load of the note set can have seen
SpecTap == InitHold /\ [][NextTap]_vars

\* oscillator settings with gains below 1, and with no oscillator active
BlendConfigs ==
    { [j \in OscIds |-> OscCells(j = 1, Square, Half)],
      [j \in OscIds |-> OscCells(j # 3, IF j = 1 THEN Square ELSE Saw,
                                 IF j = 1 THEN Half ELSE FOne)],
      [j \in OscIds |-> OscCells(FALSE, Square, FOne)] }

\* instantaneous attack and decay down to a sustain of 1/2, a release ramp
\* of a few samples
InitBlend ==
    /\ EngineNew
    /\ NoIteration
    /\ adsr_a = ADSRCells(FZero, FZero, Half, DShort)
    /\ gain_a = AtomicF32_store(FOne)
    /\ osc_a \in BlendConfigs

\* the UI thread pressing and releasing A4 and B4 together
Duet == {0, bitflag(A4) + bitflag(B4)}
UIDuet == \E m \in Duet : set_active_keys(m)

NextBlend == Audio \/ UIDuet

\* the engine mixing a chord of two keys through oscillators of several
\* gains
SpecBlend == InitBlend /\ [][NextBlend]_vars

\* the audio device keeps calling the stream callback, and every call runs
\* to its end; the envelope settings are never changed
SpecHoldLive ==
    /\ InitHold /\ [][NextHold]_vars
    /\ WF_vars(on_buffer_begin(MaxFrames * NumChannels, NumChannels))
    /\ FairFrames

\* ------------------------------------------------------------------------
\* Properties
\* ------------------------------------------------------------------------
InUnit(x) == FGe(x, FZero) /\ FLe(x, FOne)

\* C1: after every envelope tick the amplitude of every note slot is within
\* [0, 1], whatever note sets and ADSR values the UI stores, also when a
\* duration is changed while its ramp is in progress.
C1_AmplitudeInUnit == \A i \in KeyIndex : InUnit(keys[i].amplitude)

\* a step that is the start of a buffer: update has been applied to the slots
BufferStart == pc = "idle" /\ pc' = "frames"

\* a step that is one frame of a buffer: every slot has been ticked once
FrameStep == pc = "frames" /\ frame' = frame + 1

\* C2: KeyAmplitudeTracker::update is idempotent per slot: a slot in Pressed,
\* Decay or Sustain whose bit is set in the snapshot, and a slot in Released
\* whose bit is clear, keep state, amplitude, position and t_amplitude.
C2_UpdateIdempotent ==
    [][BufferStart =>
         \A i \in KeyIndex :
            (\/ bit_set(snapshot', i) /\ keys[i].state # Released
             \/ ~bit_set(snapshot', i) /\ keys[i].state = Released)
            => keys'[i] = keys[i]]_vars

\* a buffer has started while a release ramp was in progress
C2_Witness ==
    \E i \in KeyIndex :
       /\ pc = "frames" /\ frame = 0 /\ ~bit_set(snapshot, i)
       /\ keys[i].state = Released
       /\ FGt(keys[i].position, FOne)
       /\ FGt(keys[i].amplitude, FZero)
       /\ FLt(keys[i].amplitude, keys[i].t_amplitude)

\* C3: after a fully sustained note is released, with the release time and
\* the sample rate held constant, the amplitude of its slot does not increase
\* from tick to tick and is exactly 0 at the tick numbered
\* ceil(sample_rate * release) after the trigger and at every later tick.
C3_ReleaseToZero ==
    [][FrameStep =>
         \A i \in KeyIndex :
            (keys[i].state = Released /\ keys[i].t_amplitude = adsr.sustain)
            => /\ FLe(keys'[i].amplitude, keys[i].amplitude)
               /\ FCeil(keys'[i].position)
                     >= FCeil(stage_len(keys[i], sample_rate, adsr))
                  => keys'[i].amplitude = FZero]_vars

\* C4: with the attack time A > 0 and the sample rate S held constant, a
\* slot pressed at amplitude 0 first has amplitude 1.0 at the tick numbered
\* ceil(S * A) after the trigger, and moves from Pressed to Decay on that tick.
C4_AttackReachesOne ==
    [][FrameStep =>
         \A i \in KeyIndex :
            (/\ keys[i].state = Pressed /\ keys[i].t_amplitude = FZero
             /\ FGt(adsr.attack, FZero))
            => LET last == FCeil(FAdd(keys[i].position, FOne))
                             = FCeil(stage_len(keys[i], sample_rate, adsr))
               IN  /\ keys'[i].amplitude = FOne <=> last
                   /\ keys'[i].state = Decay <=> last]_vars

\* C5: with attack = 0 the first tick after a Released slot is pressed gives
\* amplitude exactly 1 and state Decay, whatever the amplitude was before.
C5_InstantAttack ==
    [][FrameStep =>
         \A i \in KeyIndex :
            (/\ keys[i].state = Pressed /\ keys[i].position = FZero
             /\ adsr.attack = FZero)
            => keys'[i].amplitude = FOne /\ keys'[i].state = Decay]_vars

\* an instant attack has snapped a slot that was pressed in mid-release
C5_Witness ==
    \E i \in KeyIndex :
       /\ adsr.attack = FZero
       /\ keys[i].state = Decay /\ keys[i].position = FZero
       /\ keys[i].amplitude = FOne
       /\ FGt(keys[i].t_amplitude, FZero) /\ FLt(keys[i].t_amplitude, FOne)

\* the target of the stage a slot is in
target(el, a) ==
    CASE el.state = Pressed -> FOne
      [] el.state = Decay -> a.sustain
      [] el.state = Released -> FZero
      [] el.state = Sustain -> a.sustain

\* C6: no envelope tick divides by zero or by a non-positive number: the
\* division by sample_rate * duration is made only when that product is
\* strictly positive, and a stage whose duration is <= 0 ends on its first
\* tick with the amplitude snapped to its target.
C6_NoDivisionByZero ==
    [][FrameStep =>
         \A i \in KeyIndex :
            LET len == stage_len(keys[i], sample_rate, adsr)
            IN  /\ ramping(keys[i], sample_rate, adsr) => FGt(len, FZero)
                /\ (keys[i].state # Sustain /\ FLe(len, FZero))
                   => /\ keys'[i].amplitude = target(keys[i], adsr)
                      /\ keys[i].state = Pressed => keys'[i].state = Decay
                      /\ keys[i].state = Decay => keys'[i].state = Sustain]_vars

\* a decay of duration 0 has ended on its first tick
C6_Witness ==
    \E i \in KeyIndex :
       /\ adsr.decay = FZero
       /\ keys[i].state = Sustain /\ keys[i].position = FOne
       /\ keys[i].amplitude = adsr.sustain

\* C7: a slot in Released with amplitude a, 0 < a < 1, whose bit is observed
\* set at a buffer start keeps a and, when sample_rate * attack > 1, its
\* first tick gives a + (1 - a) / (sample_rate * attack).
C7_RepressFromCurrent ==
    [][\A i \in KeyIndex :
         LET a == keys[i].amplitude
             mid == FGt(a, FZero) /\ FLt(a, FOne)
         IN  /\ (BufferStart /\ keys[i].state = Released /\ mid
                    /\ bit_set(snapshot', i))
                => keys'[i] = [state |-> Pressed, amplitude |-> a,
                               position |-> FZero, t_amplitude |-> a]
             /\ (FrameStep /\ keys[i].state = Pressed /\ mid
                    /\ keys[i].position = FZero /\ keys[i].t_amplitude = a
                    /\ FGt(FMul(sample_rate, adsr.attack), FOne))
                => keys'[i].amplitude
                     = FAdd(a, FDiv(FSub(FOne, a),
                                    FMul(sample_rate, adsr.attack)))]_vars

\* the first tick of an attack restarted in mid-release has been made
C7_Witness ==
    \E i \in KeyIndex :
       /\ keys[i].state = Pressed /\ keys[i].position = FOne
       /\ FGt(keys[i].t_amplitude, FZero) /\ FLt(keys[i].t_amplitude, FOne)
       /\ FGt(keys[i].amplitude, keys[i].t_amplitude)

\* the sample written by the frame that has just been made
written == buffer[(frame - 1) * channels + 1]

\* C8: the absolute value of every written sample is at most the master
\* gain g, for any number of sounding notes and any combination of active
\* oscillators with gains in [0, 1] and g in [0, 1].
C8_SampleWithinGain ==
    \A k \in 1..Len(buffer) :
       buffer[k] # Stale => FLe(FAbs(buffer[k]), fgain)

\* the oscillators whose block of on_buffer is executed
active_osc == {j \in OscIds : osc[j].active}

\* C9: in a frame where exactly one slot has a nonzero amplitude, that
\* amplitude is 1 and exactly one oscillator is active, with gain 1, the
\* written sample is master_gain * w(phase), w being the raw waveform value
\* of that oscillator at the phase of the note before the phase advance.
C9_SingleVoice ==
    [][FrameStep =>
         \A i \in KeyIndex : \A j \in OscIds :
            (/\ sounding(keys') = {i} /\ keys'[i].amplitude = FOne
             /\ active_osc = {j} /\ osc[j].gain = FOne)
            => buffer'[frame * channels + 1]
                 = FMul(fgain, waveform_value(osc[j].waveform, phases[i]))]_vars

\* a single voice at full amplitude has written a sample that is not 0
C9_Witness ==
    \E i \in KeyIndex : \E j \in OscIds :
       /\ frame >= 1 /\ written # FZero
       /\ sounding(keys) = {i} /\ keys[i].amplitude = FOne
       /\ active_osc = {j} /\ osc[j].gain = FOne
       /\ osc[j].waveform = Triangle

\* every slot is Released with amplitude 0
Silent(ks) ==
    \A i \in KeyIndex : ks[i].state = Released /\ ks[i].amplitude = FZero

\* C10: when every slot is Released with amplitude 0 and the Note Set is 0,
\* the next buffer starts with a sample that is exactly 0 (the values it
\* uses are those loaded at its start, so no later store changes it).
C10_SilenceStaysSilent ==
    [][(BufferStart /\ Silent(keys) /\ active_keys = 0) =>
         LET amps == tick_all(keys', adsr')
             r == mix(sounding(amps), amps, osc', phases,
                      [sum_amps |-> FZero, sample_w |-> FZero])
         IN  the_sample(r.acc, fgain') = FZero]_vars

\* ------------------------------------------------------------------------
\* Snapshots: the note set and the parameter cells
\* ------------------------------------------------------------------------
\* C11: the note set is loaded once per on_buffer call, before the first
\* frame: while the frame loop runs the snapshot does not change and no slot
\* goes from Released to Pressed or from another state to Released, whatever
\* the UI thread stores into the note set meanwhile.
C11_TriggersOnlyAtStart ==
    [][pc = "frames" =>
         /\ snapshot' = snapshot
         /\ \A i \in KeyIndex :
              /\ ~(keys[i].state = Released /\ keys'[i].state = Pressed)
              /\ ~(keys[i].state # Released /\ keys'[i].state = Released)]_vars

\* a buffer that is being filled after the UI thread pressed a key that the
\* snapshot does not hold: its slot is still Released
C11_Witness ==
    /\ pc = "frames"
    /\ frame >= 1
    /\ snapshot = 0
    /\ active_keys = bitflag(A4)
    /\ keys[get_phase_index(A4)].state = Released

\* C12: set_active_keys replaces the note set wholesale: the mask an on_buffer
\* call loads and applies to the slots is the mask of the latest
\* set_active_keys call (0 if there was none), never mixed with an older one.
C12_LatestMaskApplied ==
    [][BufferStart =>
         /\ snapshot' = requested
         /\ keys' = update(keys, requested)]_vars

\* a buffer that started after the key was pressed and released again: the
\* second mask is applied, the slot is Released
C12_Witness ==
    /\ presses >= 2
    /\ requested = 0
    /\ snapshot = 0
    /\ pc = "frames"
    /\ frame = 0
    /\ keys[get_phase_index(A4)].state = Released
    /\ keys[get_phase_index(A4)].amplitude # FZero

\* the values on_buffer loads from the cells before its frame loop
loaded ==
    [adsr |-> ADSR_update(adsr_a), fgain |-> AtomicF32_load(gain_a),
     osc |-> [j \in OscIds |-> Oscilator_update(osc_a[j])]]

\* C13: all frames of one on_buffer call use the attack, decay, sustain,
\* release, master gain and oscillator settings loaded from the cells at the
\* start of the call: the call starts by loading them, a store of the UI
\* thread during the frame loop leaves them alone, every frame is computed
\* from them, and without a store they are the cells' values, not the
\* defaults of ADSR::new and Oscilator::new.
C13_SettingsPerBuffer ==
    /\ [](pc = "frames" /\ stores = 0 =>
            adsr = loaded.adsr /\ fgain = loaded.fgain /\ osc = loaded.osc)
    /\ [][/\ BufferStart =>
               adsr' = loaded.adsr /\ fgain' = loaded.fgain /\ osc' = loaded.osc
          /\ pc = "frames" => adsr' = adsr /\ fgain' = fgain /\ osc' = osc
          /\ FrameStep =>
               LET r == mix(sounding(keys'), keys', osc, phases,
                            [sum_amps |-> FZero, sample_w |-> FZero])
               IN  /\ keys' = tick_all(keys, adsr)
                   /\ buffer'[frame * channels + 1] = the_sample(r.acc, fgain)
         ]_vars

\* a sounding buffer during which the UI thread changed the master gain
C13_Witness ==
    /\ pc = "frames"
    /\ frame >= 1
    /\ stores >= 1
    /\ fgain # loaded.fgain
    /\ adsr # ADSR_new
    /\ keys[get_phase_index(A4)].amplitude # FZero

ADSRFields == {"attack", "decay", "sustain", "release"}

C15_WaveformCodeValid ==
    /\ \A j \in OscIds :
         /\ osc_a[j].waveform \in 1..4
         /\ waveform_from(osc_a[j].waveform) = osc_a[j].waveform
         /\ osc[j].waveform \in 1..4
    /\ \A w \in Waveform : AtomicWaveform_store(w) \in 1..4
    /\ \A v \in {-1, 0, 5, 6} : waveform_from(v) = "panic"

\* the engine has loaded a Triangle that the UI thread stored
C15_Witness ==
    /\ stores >= 1
    /\ pc = "frames"
    /\ \E j \in OscIds : osc_a[j].waveform = 4 /\ osc[j].waveform = Triangle

\* ------------------------------------------------------------------------
\* The buffer
\* ------------------------------------------------------------------------
\* the elements of chunk number f of the buffer
chunk(f) ==
    {k \in 1..Len(buffer) : k > f * channels /\ k <= (f + 1) * channels}

\* C16: an on_buffer call with at least one channel runs through all its
\* chunks without a panic and overwrites every element of the buffer, for
\* every note set (also with bits above bit 11) and also when the buffer
\* ends with a partial frame.
C16_FullBuffer ==
    /\ pc = "idle" => \A k \in 1..Len(buffer) : buffer[k] # Stale
    /\ pc = "frames" =>
         /\ frame < chunks(Len(buffer), channels)
         /\ \A f \in 0..(frame - 1) : \A k \in chunk(f) : buffer[k] # Stale
    /\ \A i \in KeyIndex : from_zero_index(i) \in Key
    /\ \A j \in OscIds : osc[j].waveform \in 1..4
    /\ \A i \in KeyIndex : keys[i].state \in KeyState

\* a completed buffer that ends with a partial frame, filled while the note
\* set held a bit above bit 11 next to a sounding key
C16_Witness ==
    /\ pc = "idle"
    /\ channels = NumChannels
    /\ Len(buffer) = MaxFrames * NumChannels - 1
    /\ snapshot = 2^NumKeys + bitflag(A4)
    /\ buffer[Len(buffer)] # Stale
    /\ buffer[Len(buffer)] # FZero

\* C17: all channel samples of a frame written by on_buffer hold the same
\* value, the normalized mix of the frame multiplied by the master gain
\* loaded for the buffer.
C17_ChannelsIdentical ==
    /\ [](\A f \in 0..(frame - 1) : \A k \in chunk(f) :
            buffer[k] = buffer[f * channels + 1])
    /\ [][FrameStep =>
            LET r == mix(sounding(keys'), keys', osc, phases,
                         [sum_amps |-> FZero, sample_w |-> FZero])
            IN  \A k \in 1..Len(buffer) :
                  (k > frame * channels /\ k <= (frame + 1) * channels) =>
                      buffer'[k] = the_sample(r.acc, fgain)]_vars

\* a sounding frame written to more than one channel
C17_Witness ==
    /\ channels >= 2
    /\ frame >= 1
    /\ Len(buffer) >= channels
    /\ buffer[1] # FZero
    /\ buffer[channels] = buffer[1]

\* ------------------------------------------------------------------------
\* Progress of the audio thread
\* ------------------------------------------------------------------------
\* C18: the audio thread never waits for the UI thread: whatever the UI
\* thread has stored or left unstored, a new on_buffer call can start when
\* none is running, and a started call completes all its frames even if the
\* UI thread never runs again.
C18_AudioNeverWaits ==
    /\ [](pc = "idle" =>
            ENABLED on_buffer_begin(MaxFrames * NumChannels, NumChannels))
    /\ (pc = "frames" ~> pc = "idle")

\* a buffer completed although the UI thread changed the note set and an
\* envelope cell after the buffer had started, and then stopped
C18_Witness ==
    /\ pc = "idle"
    /\ frame = MaxFrames
    /\ active_keys # snapshot
    /\ stores >= 1
    /\ adsr # loaded.adsr

\* ------------------------------------------------------------------------
\* Notes and waveforms
\* ------------------------------------------------------------------------
\* (self as i32 - 49): the semitone offset of a key from A4
semitones(key) == key - A4

\* Key::freq times 10000, before it is rounded to the engine's float
freq_scaled(key) == Pow12[semitones(key)] * 440

\* C19: Key::freq is strictly increasing in the note index 0..11 of the
\* tracker's slots: the semitone offset from A4 is index - 9, the frequency
\* 440 * 2^(offset/12) grows strictly with the index (after rounding to the
\* modelled float precision it never decreases and still separates C4, A4
\* and B4), and index 9 is A4 with offset 0 and frequency 440.
C19_FreqIncreasing ==
    /\ \A i \in DOMAIN keys : semitones(from_zero_index(i)) = i - 9
    /\ \A i \in DOMAIN keys : \A j \in DOMAIN keys :
         i < j =>
           /\ freq_scaled(from_zero_index(i)) < freq_scaled(from_zero_index(j))
           /\ FLe(freq(from_zero_index(i)), freq(from_zero_index(j)))
    /\ FLt(freq(C4), freq(A4))
    /\ FLt(freq(A4), freq(B4))
    /\ from_zero_index(9) = A4
    /\ freq_scaled(A4) = 440 * 10000
    /\ freq(A4) = FInt(440)

\* the slot of index 9 sounds and its phase has advanced by the frequency
\* of A4 over the sample rate
C19_Witness ==
    /\ keys[9].amplitude # FZero
    /\ phases[9] = advance(FZero, freq(from_zero_index(9)))
    /\ phases[9] = FDiv(FInt(440), sample_rate)

\* C20: in every frame the Square oscillator returns +gain for a phase in
\* [0, 1/2) and -gain for a phase in [1/2, 1), the phase exactly 1/2
\* included.
C20_SquareHalves ==
    [][FrameStep =>
         \A i \in sounding(keys') : \A j \in OscIds :
           (osc[j].active /\ osc[j].waveform = Square) =>
             LET adam == phases[i]
                 out == osc_tick(osc[j], adam)
             IN  /\ FGe(adam, FZero) /\ FLt(adam, Half) => out = osc[j].gain
                 /\ FGe(adam, Half) /\ FLt(adam, FOne) =>
                      out = FNeg(osc[j].gain)]_vars

\* C21: after every frame each of the 12 phase accumulators lies in [0, 1):
\* a phase that has reached or passed the cycle bound is wrapped back below
\* 1, so no oscillator is ever passed the phase 1.
C21_PhaseBelowOne ==
    \A i \in KeyIndex : FGe(phases[i], FZero) /\ FLt(phases[i], FOne)

\* the (note slot, oscillator) pairs that contribute to a frame: the slot has
\* a nonzero amplitude and the oscillator is active
contributing(amps, os) ==
    {p \in KeyIndex \X OscIds : amps[p[1]].amplitude # FZero /\ os[p[2]].active}

\* the sum of term over the first k pairs of KeyIndex \X OscIds that are in
\* its domain, taken slot by slot and oscillator by oscillator
RECURSIVE pair_sum(_, _)
pair_sum(k, term) ==
    IF k = 0 THEN FZero
    ELSE LET p == <<(k - 1) \div 3, ((k - 1) % 3) + 1>>
             before == pair_sum(k - 1, term)
         IN  IF p \in DOMAIN term THEN FAdd(before, term[p]) ELSE before

\* the signal sum of a frame: amplitude times oscillator output, per pair
signal_sum(amps, os, ph) ==
    pair_sum(3 * NumKeys,
             [p \in contributing(amps, os) |->
                FMul(amps[p[1]].amplitude, osc_tick(os[p[2]], ph[p[1]]))])

\* the sample of a frame whose signal sum is w and normalization sum is t
normalized(w, t, g) == FMul(g, FMul(w, FDiv(FOne, FMax(FOne, t))))

\* the first element of the chunk written by the frame that is ending
first_written == buffer'[frame * channels + 1]

\* C22 as stated: the divisor of a frame is max(1, T) with T the sum, over
\* the contributing (note slot, active oscillator) pairs, of the note's
\* envelope amplitude, whatever the gain of the oscillator.
C22_DivisorSumsAmplitudes ==
    [][FrameStep =>
        first_written =
            normalized(signal_sum(keys', osc, phases),
                       pair_sum(3 * NumKeys,
                                [p \in contributing(keys', osc) |->
                                   keys'[p[1]].amplitude]),
                       fgain)]_vars

\* C22 amended: the divisor of a frame is max(1, T) with T the sum, over the
\* contributing (note slot, active oscillator) pairs, of the note's envelope
\* amplitude times the oscillator's gain.
C22_DivisorSumsWeighted ==
    [][FrameStep =>
        first_written =
            normalized(signal_sum(keys', osc, phases),
                       pair_sum(3 * NumKeys,
                                [p \in contributing(keys', osc) |->
                                   FMul(keys'[p[1]].amplitude,
                                        osc[p[2]].gain)]),
                       fgain)]_vars

\* two notes at amplitude 1 through a single active oscillator of gain 1/2
\* have been mixed into a frame: the sum is 1, not 2
C22_Witness ==
    /\ frame >= 1
    /\ buffer[1] # Stale /\ buffer[1] # FZero
    /\ Cardinality({i \in KeyIndex : keys[i].state = Decay
                                     /\ keys[i].amplitude = FOne}) = 2
    /\ \A j \in OscIds : osc[j].active <=> j = 1
    /\ osc[1].gain = Half

\* the oscillators os with every inactive one given another waveform and gain
retuned(os) ==
    [j \in OscIds |-> IF os[j].active THEN os[j]
                      ELSE [waveform |-> Triangle, active |-> FALSE,
                            gain |-> FTwo]]

\* C23: an oscillator whose active snapshot is false adds nothing to the
\* signal sum and nothing to the normalization sum of a frame (the frame is
\* the one the active oscillators alone produce, whatever the waveform and
\* gain of the inactive ones), and in a buffer where all three oscillators
\* are inactive every written sample is exactly 0 whatever notes sound.
C23_InactiveAddsNothing ==
    /\ []((\A j \in OscIds : ~osc[j].active) =>
              \A k \in 1..Len(buffer) : buffer[k] \in {Stale, FZero})
    /\ [][FrameStep =>
            first_written =
                the_sample(mix(sounding(keys'), keys', retuned(osc), phases,
                               [sum_amps |-> FZero, sample_w |-> FZero]).acc,
                           fgain)]_vars

\* two notes sound at full amplitude in a frame written with all three
\* oscillators inactive
C23_Witness ==
    /\ frame >= 1
    /\ buffer[1] = FZero
    /\ \A j \in OscIds : ~osc[j].active
    /\ Cardinality({i \in KeyIndex : keys[i].amplitude = FOne}) = 2

\* C24: once a slot in Released has amplitude 0, its amplitude is 0 after
\* every later tick for as long as it stays Released (its bit has not been
\* observed set), whatever values the UI writes to the ADSR cells in the
\* meantime, also a longer release after the release ramp has finished.
C24_ReleasedStaysZero ==
    [][FrameStep =>
        \A i \in KeyIndex :
            keys[i].state = Released /\ keys[i].amplitude = FZero
                => keys'[i].amplitude = FZero]_vars

\* a step in which KeyAmplitudeTracker::update is applied to the slots: the
\* audio thread leaves the idle position and no cell is written
UpdateStep == pc = "idle" /\ snapshot' = active_keys /\ UNCHANGED cells

\* C25: the only state changes of a slot are Released -> Pressed (in update,
\* bit set), Pressed -> Decay (in tick, attack elapsed), Decay -> Sustain (in
\* tick, decay elapsed) and Pressed, Decay or Sustain -> Released (in update,
\* bit clear); there are always exactly 12 slots.
C25_OnlyFourTransitions ==
    /\ [](DOMAIN keys = KeyIndex /\ Cardinality(DOMAIN keys) = 12
          /\ \A i \in DOMAIN keys : keys[i].state \in KeyState)
    /\ [][\A i \in KeyIndex :
            keys'[i].state # keys[i].state =>
                \/ /\ keys[i].state = Released /\ keys'[i].state = Pressed
                   /\ UpdateStep /\ bit_set(snapshot', i)
                \/ /\ keys[i].state = Pressed /\ keys'[i].state = Decay
                   /\ FrameStep
                   /\ FGe(FAdd(keys[i].position, FOne),
                          FMul(sample_rate, adsr.attack))
                \/ /\ keys[i].state = Decay /\ keys'[i].state = Sustain
                   /\ FrameStep
                   /\ FGe(FAdd(keys[i].position, FOne),
                          FMul(sample_rate, adsr.decay))
                \/ /\ keys[i].state # Released /\ keys'[i].state = Released
                   /\ UpdateStep /\ ~bit_set(snapshot', i)]_vars

\* a slot that went through attack, a decay of several samples and Sustain
\* has been released from the sustain level
C25_Witness ==
    \E i \in KeyIndex :
        /\ keys[i].state = Released
        /\ adsr.attack # FZero /\ adsr.decay # FZero
        /\ adsr.sustain = Half
        /\ keys[i].t_amplitude = adsr.sustain
        /\ presses >= 2

\* C26: with ADSR values held constant (durations >= 0, sustain in [0, 1])
\* the amplitude is non-decreasing on every tick while a slot is in Pressed,
\* stays within [sustain, 1] and is non-increasing while in Decay, and is
\* non-increasing and >= 0 on every tick while in Released.
C26_MonotoneStages ==
    [][FrameStep =>
        \A i \in KeyIndex :
            /\ keys[i].state = Pressed /\ keys'[i].state = Pressed
                 => FGe(keys'[i].amplitude, keys[i].amplitude)
            /\ keys[i].state = Decay /\ keys'[i].state = Decay
                 => /\ FLe(keys'[i].amplitude, keys[i].amplitude)
                    /\ FGe(keys'[i].amplitude, adsr.sustain)
                    /\ FLe(keys'[i].amplitude, FOne)
            /\ keys[i].state = Released
                 => /\ FLe(keys'[i].amplitude, keys[i].amplitude)
                    /\ FGe(keys'[i].amplitude, FZero)]_vars

\* the slot of the key the UI presses when the envelope settings are held
a4_slot == get_phase_index(A4)

\* ceil(sample_rate * attack) + ceil(sample_rate * decay) + extra
stage_ticks(a, extra) ==
    FCeil(FMul(sample_rate, a.attack)) + FCeil(FMul(sample_rate, a.decay))
        + extra

\* the slot of A4 is on its way to Sustain for less than `limit` ticks and
\* is in Sustain, at the sustain level, after `limit` ticks at most
within(limit) ==
    /\ keys[a4_slot].state \in {Pressed, Decay} => elapsed[a4_slot] < limit
    /\ keys[a4_slot].state = Sustain =>
           /\ elapsed[a4_slot] <= limit
           /\ keys[a4_slot].amplitude = adsr.sustain

\* the slot of A4 leaves Sustain only in an update that finds its bit clear
sustain_held ==
    keys[a4_slot].state = Sustain /\ keys'[a4_slot].state # Sustain
        => UpdateStep /\ ~bit_set(snapshot', a4_slot)

\* once the bit of A4 is set in every snapshot, the slot of A4 ends up in
\* Sustain at the sustain level for good
settles ==
    <>[]bit_set(snapshot, a4_slot)
        => <>[](/\ keys[a4_slot].state = Sustain
                /\ keys[a4_slot].amplitude = adsr.sustain)

\* C27 as stated: if a note's bit is set in every snapshot from some buffer
\* on, the ADSR values stay constant and on_buffer keeps being invoked, the
\* slot eventually reaches Sustain with the sustain level as amplitude, at
\* most ceil(sample_rate * attack) + ceil(sample_rate * decay) + 1 ticks
\* after the trigger, and stays in Sustain for as long as the bit stays set.
C27_SustainWithinOne ==
    /\ [](within(stage_ticks(adsr, 1)))
    /\ [][sustain_held]_vars
    /\ settles

\* C27 amended: the same with at most ceil(sample_rate * attack) +
\* ceil(sample_rate * decay) + 2 ticks after the trigger.
C27_SustainWithinTwo ==
    /\ [](within(stage_ticks(adsr, 2)))
    /\ [][sustain_held]_vars
    /\ settles

\* A4 is held in Sustain at a sustain level of 1/2, reached through an
\* attack and a decay of several samples each
C27_Witness ==
    /\ keys[a4_slot].state = Sustain
    /\ keys[a4_slot].amplitude = Half
    /\ adsr.attack # FZero /\ adsr.decay # FZero
    /\ elapsed[a4_slot] = stage_ticks(adsr, 0)
    /\ bit_set(snapshot, a4_slot)

\* C28: while a slot is in Sustain, after every tick its amplitude equals
\* the sustain value loaded at the start of the current buffer, which is the
\* value in the sustain cell at that moment: a sustain value written by the
\* UI shows in the amplitude from the first frame of the next buffer on.
C28_SustainTracksCell ==
    [][/\ UpdateStep => adsr'.sustain = AtomicF32_load(adsr_a.sustain)
       /\ FrameStep =>
            /\ adsr' = adsr
            /\ \A i \in KeyIndex :
                 keys'[i].state = Sustain
                     => keys'[i].amplitude = adsr.sustain]_vars

\* A4 is held in Sustain and has been ticked to the sustain level 1 that
\* the UI stored over the initial 1/2
C28_Witness ==
    /\ pc = "frames" /\ frame >= 1
    /\ stores = 1
    /\ adsr.sustain = FOne
    /\ keys[a4_slot].state = Sustain
    /\ keys[a4_slot].amplitude = FOne
    /\ elapsed[a4_slot] = 2

\* C29: when a slot in Pressed, Decay or Sustain with current amplitude a
\* has its bit observed clear at a buffer start, it enters Released with
\* position 0 and t_amplitude = a (its amplitude still a), and if
\* sample_rate * release > 1 the first tick afterwards gives the amplitude
\* a - a / (sample_rate * release), also when an attack is interrupted.
C29_ReleaseFromCurrent ==
    [][\A i \in KeyIndex :
        /\ UpdateStep /\ keys[i].state # Released /\ ~bit_set(active_keys, i)
             => keys'[i] = [state |-> Released, position |-> FZero,
                            amplitude |-> keys[i].amplitude,
                            t_amplitude |-> keys[i].amplitude]
        /\ (/\ FrameStep /\ keys[i].state = Released
            /\ keys[i].position = FZero
            /\ FGt(FMul(sample_rate, adsr.release), FOne))
             => keys'[i].amplitude =
                    FSub(keys[i].amplitude,
                         FDiv(keys[i].amplitude,
                              FMul(sample_rate, adsr.release)))]_vars

\* a slot released in the middle of its attack has made the first tick of
\* its release ramp
C29_Witness ==
    \E i \in KeyIndex :
        LET el == keys[i]
            len == FMul(sample_rate, adsr.release)
        IN  /\ el.state = Released /\ el.position = FOne
            /\ adsr.attack # FZero /\ adsr.sustain = FOne
            /\ FGt(el.t_amplitude, FZero) /\ FLt(el.t_amplitude, FOne)
            /\ FGt(len, FOne)
            /\ el.amplitude = FSub(el.t_amplitude, FDiv(el.t_amplitude, len))
            /\ FLt(el.amplitude, el.t_amplitude)

\* the phase of slot i after one increment freq / sample_rate and the wrap
stepped(i) ==
    LET p == FAdd(phases[i], FDiv(freq(from_zero_index(i)), sample_rate))
    IN  IF FGt(p, FOne) THEN FSub(p, FOne) ELSE p

\* C30: in each frame the phase accumulator of a note is advanced by exactly
\* one increment freq(note) / sample_rate if and only if the amplitude of
\* the note after the envelope tick of the frame is nonzero, however many
\* oscillators are active (also none); the phase of a slot with amplitude 0
\* is unchanged, and no other step changes a phase: it is not reset to 0
\* when the note is pressed again.
C30_PhaseAdvancesWhenSounding ==
    [][IF FrameStep
       THEN \A i \in KeyIndex :
                phases'[i] = IF keys'[i].amplitude # FZero THEN stepped(i)
                                                           ELSE phases[i]
       ELSE phases' = phases]_vars

\* with no oscillator active A4 has sounded, its phase has moved on from 0,
\* and it has just been pressed again
C30_Witness ==
    /\ \A j \in OscIds : ~osc[j].active
    /\ pc = "frames" /\ frame = 0
    /\ keys[a4_slot].state = Pressed
    /\ phases[a4_slot] # FZero
    /\ presses >= 3

\* C31: a press that the UI sets and clears again between two consecutive
\* loads of the note set is never observed. At a load, every slot whose bit
\* some set_active_keys call set since the previous load, but whose bit was
\* clear at the previous load and is clear in the latest call, keeps its
\* state, amplitude, position and t_amplitude, and its phase: the load does
\* to it what it does when the mask was never changed.
C31_TapUnobserved ==
    [][UpdateStep =>
         \A i \in DOMAIN keys :
             (/\ i \in taps.tapped
              /\ ~bit_set(snapshot, i)
              /\ ~bit_set(requested, i))
                 => /\ keys'[i] = keys[i]
                    /\ keys'[i] = update(keys, snapshot)[i]
                    /\ phases'[i] = phases[i]]_vars

\* A4 was set and cleared between two loads and a buffer has been filled
\* since: its slot has never left Released, it is silent and its phase has
\* not moved
C31_Witness ==
    /\ a4_slot \in taps.missed
    /\ presses = 2
    /\ pc = "idle"
    /\ frame = MaxFrames
    /\ keys[a4_slot].state = Released
    /\ keys[a4_slot].amplitude = FZero
    /\ keys[a4_slot].t_amplitude = FZero
    /\ phases[a4_slot] = FZero

\* the state that only the audio thread holds: the envelope slots and the
\* envelope settings of the key tracker, the phase accumulators, the
\* oscillators and the local copy of the master gain
private == <<adsr, keys, phases, osc, fgain>>

\* a step of the UI thread: a set_active_keys call or a store to a cell
UIStep == presses' # presses \/ stores' # stores

\* a step of on_buffer: its start or one frame of its loop
OnBufferStep == pc' # pc \/ frame' # frame

\* C32: the engine never stores to the note set or to a parameter cell, and
\* a store of the UI thread never changes an envelope slot, a phase
\* accumulator or a local parameter copy of the engine. Every step that
\* changes a cell is a UI store and leaves the engine's private state as it
\* was; every step that changes the private state is a step of on_buffer and
\* leaves every cell as it was.
C32_SingleWriter ==
    [][/\ cells' # cells => UIStep /\ ~OnBufferStep /\ UNCHANGED private
       /\ private' # private => OnBufferStep /\ ~UIStep /\ UNCHANGED cells
       /\ OnBufferStep => UNCHANGED cells
       /\ UIStep => UNCHANGED private]_vars

\* the UI thread has pressed A4 and switched oscillator 2 on, and the engine
\* has taken both over in a buffer it has filled: the cells still hold what
\* the UI stored
C32_Witness ==
    /\ pc = "idle"
    /\ frame = MaxFrames
    /\ stores = 1
    /\ active_keys = bitflag(A4)
    /\ osc_a[2].active
    /\ osc[2].active
    /\ keys[a4_slot].state = Sustain
    /\ phases[a4_slot] # FZero

\* C33: the four note-index maps agree for every i in 0..11: the bitflag of
\* Key::from_zero_index(i) is 1 << i, Key::from_bitflag(1 << i) is that key,
\* its phase index is i, and bit i of the mask drives envelope slot i in
\* KeyAmplitudeTracker::update (the phase that advances for slot i is
\* element i, by the increment of that key); mask bits at positions >= 12
\* affect no slot.
C33_IndexMapsAgree ==
    [][/\ UpdateStep =>
            /\ \A i \in DOMAIN keys :
                  LET key == from_zero_index(i)
                  IN  /\ key \in Key
                      /\ bitflag(key) = 2^i
                      /\ from_bitflag(2^i) = key
                      /\ get_phase_index(key) = i
                      /\ keys'[i] =
                           IF (active_keys \div bitflag(key)) % 2 = 1
                           THEN press(keys[i]) ELSE release(keys[i])
            /\ keys' = update(keys, active_keys % 2^NumKeys)
       /\ FrameStep =>
            \A i \in DOMAIN keys :
               phases'[i] # phases[i] =>
                  /\ keys'[i].amplitude # FZero
                  /\ phases'[i] = advance(phases[i], freq(from_zero_index(i)))
      ]_vars

\* B4 sounds next to a bit above B4 in the note set: slot 11 is the only one
\* that has left rest and the only one whose phase has moved
C33_Witness ==
    /\ snapshot = bitflag(B4) + 2^NumKeys
    /\ pc = "idle"
    /\ frame = MaxFrames
    /\ keys[NumKeys - 1].state = Sustain
    /\ phases[NumKeys - 1] # FZero
    /\ \A i \in 0..(NumKeys - 2) :
          keys[i].state = Released /\ phases[i] = FZero

\* the keys whose bits i..11 are set in the mask, in ascending index order
RECURSIVE keys_of(_, _)
keys_of(mask, i) ==
    IF i >= NumKeys THEN <<>>
    ELSE (IF bit_set(mask, i) THEN <<from_zero_index(i)>> ELSE <<>>)
             \o keys_of(mask, i + 1)

\* C34: a KeyBitflags iterator created with cursor 1 over any mask
\* terminates: its calls of next return exactly the keys whose bits 0..11
\* are set in the mask, each once and in ascending index order, then None on
\* every further call, and Key::from_bitflag is never given a value it has no
\* arm for; KeyBitflags::all() yields the 12 keys C4..B4.
C34_IteratorYieldsSetKeys ==
    LET due == keys_of(iter[1], 0)
    IN  /\ \A n \in 1..Len(yielded) :
              /\ yielded[n] = IF n <= Len(due) THEN Some(due[n]) ELSE None
              /\ yielded[n] # None => yielded[n][1] \in Key
        /\ \A n \in 1..Len(yielded) : \A k \in 1..Len(yielded) :
              (n # k /\ yielded[n] # None) => yielded[n] # yielded[k]
        /\ \E i \in 0..NumKeys : iter[2] = 2^i
        /\ KeyBitflags_all[1] = 2^NumKeys - 1
        /\ (iter[1] = KeyBitflags_all[1] /\ Len(yielded) >= NumKeys) =>
              \A n \in 1..NumKeys : yielded[n] = Some(C4 + n - 1)

\* an iterator over the bits of C4, B4 and bit 12 has returned C4, then B4,
\* then None twice
C34_Witness ==
    /\ iter[1] = bitflag(C4) + bitflag(B4) + 2^NumKeys
    /\ yielded = <<Some(C4), Some(B4), None, None>>

====
